---- MODULE Spec2Model ----
(***************************************************************************)
(* Model of the notion-bookshelf migration scripts.                        *)
(*                                                                         *)
(* Two variants of the script exist: src/bookshelf-migration.py ("new")    *)
(* and src/old_bookshelf-migration.py ("old").  The model follows the      *)
(* classes FilterCreator, PandasLoader and PayloadDeployer of both and     *)
(* composes them the way main() does: build the filter, load the old       *)
(* database page by page, then transfer the loaded rows one at a time.     *)
(* The filter functions (SpecFn) and the PandasConverter with the property *)
(* mapping (SpecRec) are also applied on their own to drawn inputs.        *)
(*                                                                         *)
(* Python's None is the string "None"; an exception that leaves a method   *)
(* is a record [kind |-> "raise", exc |-> ...].  Every request to the      *)
(* Notion, Google Books and Open Library services is two steps, the issue  *)
(* of the request and its return, with the requests that are on the wire   *)
(* kept in the set inflight.                                               *)
(***************************************************************************)
EXTENDS Integers, Sequences, FiniteSets, TLC

None == "None"

\* ---- bounds of the model -------------------------------------------------
NumRecords == 3

PageSize == 1

MaxRuns == 2

MaxFail == 1

MaxLeaves == 5

MaxRel == 2

VARIABLES
    variant,        \* "new" or "old": which script runs
    args,           \* the parsed command line handed to the classes
    src,            \* the old Notion database: id -> page
    run,            \* number of the current run
    pc,             \* position of the script
    filter_object,  \* PandasLoader.filter_object
    filters,        \* the list handed to dict_list_to_object
    db_response_obj,\* load_db: the last successful response body
    records,        \* load_db: ids of the records loaded so far (the df)
    firstOk,        \* load_db: whether the first query returned ok
    fails,          \* failed page queries so far in this load, counted up to MaxFail
    df,             \* transfer_entries: the rows iterated over
    idx,            \* transfer_entries: position in df
    cover_url,      \* create_payload: result of get_cover_url
    isbn,           \* get_cover_url: result of get_isbn
    properties,     \* result of compile_properties for the current row
    inflight,       \* requests issued and not yet returned
    aborted,        \* the exception that ended the run, or NoAbort
    issuedKinds,    \* kinds of requests issued in this run
    createIssued,   \* ids whose create request was issued in this run, in order
    createOk,       \* ids whose create returned ok in this run
    createFailed,   \* ids whose create returned not ok in this run
    updIssued,      \* ids whose "mark transferred" update was issued in this run
    lastSearch,     \* answer of the title/author search for the current row
    lastLookup,     \* answer of the ISBN cover lookup for the current row
    prevLoad,       \* what the previous run's load_db returned
    updSince,       \* an update succeeded since the previous run's load
    result,         \* get_record: the raw result it converts
    record,         \* get_record: the record built so far
    todo,           \* get_record: the property names still to visit
    titles,         \* get_relation: the titles resolved so far
    row,            \* the DataFrame row handed to the PayloadDeployer
    prop_value,     \* the result of retrieve_property_value
    titleOk,        \* history: the responses of the title lookups, in order
    allSucceeded    \* history: every create and update so far, of all runs, succeeded

vars == <<variant, args, src, run, pc, filter_object, filters, db_response_obj,
          records, firstOk, fails, df, idx, cover_url, isbn, properties,
          inflight, aborted, issuedKinds, createIssued, createOk,
          createFailed, updIssued, lastSearch, lastLookup, prevLoad, updSince,
          result, record, todo, titles, row, prop_value, titleOk, allSucceeded>>

\* the variables of the PandasConverter and of a single property mapping
convVars == <<result, record, todo, titles, row, prop_value, titleOk>>

Raise(e, w) == [kind |-> "raise", exc |-> e, where |-> w]

NoAbort == [kind |-> "none", exc |-> None, where |-> None]

\* ---- FilterCreator -------------------------------------------------------

\* FilterCreator.__init__: args.status 0/1/2 -> status name
StatusOf(s) ==
    IF s = "0" THEN "Read"
    ELSE IF s = "1" THEN "Reading"
    ELSE IF s = "2" THEN "Want to read"
    ELSE None

\* FilterCreator.year_page_id (old variant)
year_page_id ==
    [y \in {"2023", "2022", "Grad", "Childhood"} |->
        IF y = "2023" THEN "fb9c8939252942189c50cec14df3e7bd"
        ELSE IF y = "2022" THEN "2ee1e919789e4594b1e9f5b9c2ddf05e"
        ELSE IF y = "Grad" THEN "d94f0c714723481994d9c3bfefdfb681"
        ELSE "e640e16b6a7f4a7788264a689067bc7d"]

Leaf(p, t, c, v) == [kind |-> "leaf", property |-> p, type |-> t, cond |-> c, value |-> v]

not_transferred == Leaf("Transferred to new db?", "checkbox", "equals", "False")

StatusLeaf(s) == Leaf("Status", "multi_select", "contains", s)

TypeLeaf(t) == Leaf("Type", "select", "equals", t)

StandaloneLeaf == Leaf("Series", "relation", "is_empty", "True")

YearLeaf(id) == Leaf("Year Read", "relation", "contains", id)

\* a chain instead of the midpoint split: the head against the rest
RECURSIVE dict_list_to_object_chain(_)
dict_list_to_object_chain(fs) ==
    IF Len(fs) > 1
    THEN [kind |-> "and", l |-> fs[1], r |-> dict_list_to_object_chain(Tail(fs))]
    ELSE IF Len(fs) = 0 THEN Raise("IndexError", "dict_list_to_object")
    ELSE fs[1]

\* a single leaf wrapped in an AND-node of its own
RECURSIVE dict_list_to_object_wrap(_)
dict_list_to_object_wrap(fs) ==
    IF Len(fs) > 1
    THEN [kind |-> "and",
          l |-> dict_list_to_object_wrap(SubSeq(fs, 1, Len(fs) \div 2)),
          r |-> dict_list_to_object_wrap(SubSeq(fs, Len(fs) \div 2 + 1, Len(fs)))]
    ELSE IF Len(fs) = 0 THEN Raise("IndexError", "dict_list_to_object")
    ELSE [kind |-> "and", l |-> fs[1], r |-> fs[1]]

\* FilterCreator.dict_list_to_object: filters[0] of an empty list raises
\* IndexError; the halves of a list longer than one are never empty.
RECURSIVE dict_list_to_object(_)
dict_list_to_object(fs) ==
    IF Len(fs) > 1
    THEN [kind |-> "and",
          l |-> dict_list_to_object(SubSeq(fs, 1, Len(fs) \div 2)),
          r |-> dict_list_to_object(SubSeq(fs, Len(fs) \div 2 + 1, Len(fs)))]
    ELSE IF Len(fs) = 0 THEN Raise("IndexError", "dict_list_to_object")
    ELSE fs[1]

\* create_filter up to the status criterion, the same in both variants
FiltersBaseStatus(a) ==
    IF StatusOf(a.status) # None
    THEN <<not_transferred, StatusLeaf(StatusOf(a.status))>>
    ELSE <<not_transferred>>

\* FilterCreator.create_filter of the new variant: line 124 appends the
\* unbound name mediat_type, so a type criterion raises NameError.
create_filter_new(a) ==
    IF a.type # None
    THEN Raise("NameError", "create_filter")
    ELSE dict_list_to_object(FiltersBaseStatus(a))

\* the year leaf built with dict.get: an unknown label yields None, no error
YearFiltersGet(fs, a) ==
    IF a.year # None
    THEN IF a.year \in DOMAIN year_page_id
         THEN Append(fs, YearLeaf(year_page_id[a.year]))
         ELSE Append(fs, YearLeaf(None))
    ELSE fs

\* create_filter of the old variant, lines 562-564: year_page_id[args.year]
\* raises KeyError for a label that is not a key of the table.
YearFilters(fs, a) ==
    IF a.year # None
    THEN IF a.year \in DOMAIN year_page_id
         THEN Append(fs, YearLeaf(year_page_id[a.year]))
         ELSE <<Raise("KeyError", "create_filter")>>
    ELSE fs

\* FilterCreator.create_filter of the old variant
create_filter_old(a) ==
    LET f1 == FiltersBaseStatus(a)
        f2 == IF a.type # None THEN Append(f1, TypeLeaf(a.type)) ELSE f1
        f3 == IF a.standalone THEN Append(f2, StandaloneLeaf) ELSE f2
        f4 == YearFilters(f3, a)
    IN  IF f4[1].kind = "raise" THEN f4[1] ELSE dict_list_to_object(f4)

create_filter(v, a) == IF v = "new" THEN create_filter_new(a) ELSE create_filter_old(a)

\* ---- the old database and its query endpoint ------------------------------

Ids == 1..NumRecords

\* the shapes a page of the old database takes in the model
PageShapes ==
    { [Type |-> "Book", Cover |-> None],
      [Type |-> "Book", Cover |-> "https://covers/own.jpg"],
      [Type |-> "Manga", Cover |-> None] }

\* a page: the fields the filter leaves and the transfer read
MakePage(i, shape) ==
    [Type |-> shape.Type,
     Cover |-> shape.Cover,
     transferred |-> FALSE,
     Status |-> IF i % 2 = 1 THEN {"Read"} ELSE {"Reading"},
     Series |-> IF i = 2 THEN {"series-page"} ELSE {},
     YearRead |-> IF i = 2 THEN {} ELSE {year_page_id["2023"]}]

\* one leaf of a filter object against one page
EvalLeaf(f, page) ==
    IF f.property = "Transferred to new db?" THEN (f.value = "False") = (~page.transferred)
    ELSE IF f.property = "Status" THEN f.value \in page.Status
    ELSE IF f.property = "Type" THEN page.Type = f.value
    ELSE IF f.property = "Series" THEN page.Series = {}
    ELSE IF f.property = "Year Read" THEN f.value \in page.YearRead
    ELSE FALSE

RECURSIVE EvalFilter(_, _)
EvalFilter(f, page) ==
    IF f.kind = "and" THEN EvalFilter(f.l, page) /\ EvalFilter(f.r, page)
    ELSE EvalLeaf(f, page)

\* NotionClient.query_database: "filter" and "start_cursor" are put in the
\* request only when the caller passed them; cursor 0 stands for no cursor.
QueryRequest(filtered, cursor) ==
    [kind |-> "query", id |-> 0, filtered |-> filtered, cursor |-> cursor]

\* The query endpoint: the pages from the cursor on, in database order, that
\* satisfy the request's filter (all of them when the request has none), cut
\* at the page size; next_cursor is the first page left out.
ServiceQuery(db, req, f) ==
    LET Keep(i) == /\ (req.cursor = 0 \/ i >= req.cursor)
                   /\ (req.filtered => EvalFilter(f, db[i]))
        all == SelectSeq([i \in Ids |-> i], Keep)
    IN  [results |-> SubSeq(all, 1, IF Len(all) < PageSize THEN Len(all) ELSE PageSize),
         has_more |-> Len(all) > PageSize,
         next_cursor |-> IF Len(all) > PageSize THEN all[PageSize + 1] ELSE 0]

NoResponse == [results |-> <<>>, has_more |-> FALSE, next_cursor |-> 0]

\* PandasConverter.response_to_records and the DataFrame row of a page: the
\* row carries the page id and the page's properties as loaded.
EntryOf(db, i) ==
    [page_id |-> i,
     Type |-> db[i].Type,
     Cover |-> db[i].Cover,
     Name |-> "Dune",
     Authors |-> <<"Herbert">>,
     Language |-> None,
     Genre |-> <<"Sci-fi">>,
     StartEnd |-> <<"2022-01-01", "2022-02-01">>,
     Rate |-> "5",
     CurrentOn |-> "NaN",
     TotalPages |-> "412",
     NumberInSeries |-> "1",
     Owned |-> TRUE]

\* ---- PayloadDeployer: property objects ------------------------------------

NoneProp == [type |-> "None"]

\* PayloadDeployer.convert_type_names, OLD : NEW
convert_type_names ==
    [t \in {"Book", "Novella", "Graphic Novel", "Manga", "Webcomic", "Poetry",
            "Short Story", "Collection"} |->
        IF t = "Poetry" THEN "Poem"
        ELSE IF t = "Short Story" THEN "Short story"
        ELSE t]

NeededNew ==
    <<"Title", "0 Type", "0 Cover", "1 Author(s)", "1 Language", "1 Genre(s)",
      "1 Dates read", "1 Rating", "BNG Current page", "BNG Total pages",
      "BNG Number in series", "BNGCA Owned">>

\* PayloadDeployer.properties_needed_by_type of the new variant
properties_needed_by_type_new ==
    [t \in {"Book", "Novella", "Graphic Novel"} |-> NeededNew]

\* PayloadDeployer.properties_needed_by_type of the old variant
properties_needed_by_type_old ==
    [t \in {"Book"} |->
        <<"Title", "0 Type", "0 Cover", "1 Alternate title", "1 Author(s)",
          "1 Language", "1 Genre(s)", "1 Dates read", "1 Rating",
          "BNG Current page", "BNG Total pages", "BNG Number in series",
          "BNGISP Publication date", "BNGCA Owned">>]

create_file_property(file_url) ==
    IF file_url = None THEN NoneProp
    ELSE [type |-> "files", ftype |-> "external", name |-> "cover", url |-> file_url]

create_title_property(title) ==
    IF title = None THEN NoneProp
    ELSE [type |-> "title", id |-> "title", content |-> title]

create_select_property(select_value) ==
    IF select_value = None THEN NoneProp
    ELSE [type |-> "select", name |-> select_value]

create_multiselect_property(multiselect_values) ==
    IF Len(multiselect_values) = 0 THEN NoneProp
    ELSE [type |-> "multi_select", multi_select |-> multiselect_values]

create_date_property(start, end) ==
    IF start = None /\ end = None THEN NoneProp
    ELSE [type |-> "date", start |-> start, end |-> end]

\* the number property without the NaN test
create_number_property_nan(number_value) ==
    IF number_value = None THEN NoneProp
    ELSE [type |-> "number", number |-> number_value]

\* math.isnan(None) is not reached: the None test comes first
create_number_property(number_value) ==
    IF number_value = None \/ number_value = "NaN" THEN NoneProp
    ELSE [type |-> "number", number |-> number_value]

create_checkbox_property(checkbox_value) ==
    [type |-> "checkbox", checkbox |-> checkbox_value]

OptionsOf(names) == [i \in 1..Len(names) |-> [name |-> names[i]]]

\* [a for a in entry["Authors"]], line 404: the list items are the bare
\* strings, which the payload carries as JSON strings, not as option objects
StringsOf(names) == [i \in 1..Len(names) |-> [string |-> names[i]]]

\* PayloadDeployer.retrieve_property_value of the new variant
retrieve_property_value_new(prop, entry) ==
    IF prop = "0 Cover" THEN create_file_property(entry.Cover)
    ELSE IF prop = "Title" THEN create_title_property(entry.Name)
    ELSE IF prop = "0 Type" THEN
        create_select_property(IF entry.Type \in DOMAIN convert_type_names
                               THEN convert_type_names[entry.Type] ELSE None)
    ELSE IF prop = "1 Author(s)" THEN create_multiselect_property(StringsOf(entry.Authors))
    ELSE IF prop = "1 Language" THEN create_select_property(entry.Language)
    ELSE IF prop = "1 Genre(s)" THEN create_multiselect_property(OptionsOf(entry.Genre))
    ELSE IF prop = "1 Dates read" THEN
        create_date_property(
            IF Len(entry.StartEnd) > 0 THEN entry.StartEnd[1] ELSE None,
            IF Len(entry.StartEnd) = 2 THEN entry.StartEnd[2] ELSE None)
    ELSE IF prop = "1 Rating" THEN create_select_property(entry.Rate)
    ELSE IF prop = "BNG Current page" THEN create_number_property(entry.CurrentOn)
    ELSE IF prop = "BNG Total pages" THEN create_number_property(entry.TotalPages)
    ELSE IF prop = "BNG Number in series" THEN create_number_property(entry.NumberInSeries)
    ELSE IF prop = "BNGCA Owned" THEN create_checkbox_property(entry.Owned)
    ELSE NoneProp

NeedsReview == [checkbox |-> TRUE]

\* PayloadDeployer.get_type_property (old): only 'Book' keeps its name
get_type_property(entry) ==
    IF entry.Type \in {"Book"} THEN [type |-> "select", name |-> entry.Type]
    ELSE NoneProp

\* PayloadDeployer.get_author_property (old)
get_author_property(entry) ==
    IF Len(entry.Authors) = 0 THEN NoneProp
    ELSE [type |-> "multi_select", multi_select |-> OptionsOf(entry.Authors)]

\* PayloadDeployer.get_genre_property (old)
get_genre_property(entry) ==
    IF Len(entry.Genre) = 0 THEN NoneProp
    ELSE [type |-> "multi_select", multi_select |-> OptionsOf(entry.Genre)]

\* PayloadDeployer.get_dates_property (old)
get_dates_property(entry) ==
    IF Len(entry.StartEnd) = 0 THEN NoneProp
    ELSE IF Len(entry.StartEnd) = 1
         THEN [type |-> "date", start |-> entry.StartEnd[1], end |-> None]
    ELSE [type |-> "date", start |-> entry.StartEnd[1], end |-> entry.StartEnd[2]]

NumericTypes == {"Book", "Novella", "Graphic Novel"}

\* get_current_page_property and get_total_pages_property (old):
\* math.isnan(None) raises TypeError
get_pages_property(entry, value) ==
    IF entry.Type \notin NumericTypes THEN NoneProp
    ELSE IF value = None THEN Raise("TypeError", "compile_properties")
    ELSE IF value = "NaN" THEN NoneProp
    ELSE [type |-> "number", number |-> value]

\* PayloadDeployer.get_number_in_series_property (old)
get_number_in_series_property(entry) ==
    IF entry.Type \notin NumericTypes THEN NoneProp
    ELSE IF entry.NumberInSeries = None THEN NoneProp
    ELSE IF entry.NumberInSeries = "NaN" THEN NoneProp
    ELSE [type |-> "number", number |-> entry.NumberInSeries]

\* PayloadDeployer.retrieve_property_value of the old variant
retrieve_property_value_old(prop, entry, cover) ==
    IF prop = "0 Cover" THEN create_file_property(cover)
    ELSE IF prop = "Title" THEN create_title_property(entry.Name)
    ELSE IF prop = "0 Type" THEN get_type_property(entry)
    ELSE IF prop = "1 Author(s)" THEN get_author_property(entry)
    ELSE IF prop = "1 Language" THEN create_select_property(entry.Language)
    ELSE IF prop = "1 Genre(s)" THEN get_genre_property(entry)
    ELSE IF prop = "1 Dates read" THEN get_dates_property(entry)
    ELSE IF prop = "1 Rating" THEN create_select_property(entry.Rate)
    ELSE IF prop = "BNG Current page" THEN get_pages_property(entry, entry.CurrentOn)
    ELSE IF prop = "BNG Total pages" THEN get_pages_property(entry, entry.TotalPages)
    ELSE IF prop = "BNG Number in series" THEN get_number_in_series_property(entry)
    ELSE IF prop = "BNGCA Owned" THEN create_checkbox_property(entry.Owned)
    ELSE NoneProp

\* the values of the needed properties, by name
ValuesOf(needed, entry, cover, v) ==
    [p \in {needed[i] : i \in 1..Len(needed)} |->
        IF v = "new" THEN retrieve_property_value_new(p, entry)
        ELSE retrieve_property_value_old(p, entry, cover)]

\* the property map without the review flag
PropertyMapNoReview(value) ==
    [k \in {p \in DOMAIN value : value[p] # NoneProp} |-> value[k]]

\* the property map: "Needs Review" plus each needed key whose value is not None
PropertyMap(value) ==
    [k \in {"Needs Review"} \cup {p \in DOMAIN value : value[p] # NoneProp} |->
        IF k = "Needs Review" THEN NeedsReview ELSE value[k]]

\* PayloadDeployer.compile_properties of the new variant:
\* properties_needed_by_type[entry["Type"]] raises KeyError for other types
compile_properties_new(entry) ==
    IF entry.Type \notin DOMAIN properties_needed_by_type_new
    THEN Raise("KeyError", "compile_properties")
    ELSE [kind |-> "ok",
          value |-> PropertyMap(ValuesOf(properties_needed_by_type_new[entry.Type],
                                         entry, None, "new"))]

\* PayloadDeployer.compile_properties of the old variant
compile_properties_old(entry, cover) ==
    IF entry.Type \notin DOMAIN properties_needed_by_type_old
    THEN Raise("KeyError", "compile_properties")
    ELSE LET value == ValuesOf(properties_needed_by_type_old[entry.Type], entry, cover, "old")
             raising == {p \in DOMAIN value : value[p] = Raise("TypeError", "compile_properties")}
         IN  IF raising # {} THEN Raise("TypeError", "compile_properties")
             ELSE [kind |-> "ok", value |-> PropertyMap(value)]

compile_properties(v, entry, cover) ==
    IF v = "new" THEN compile_properties_new(entry) ELSE compile_properties_old(entry, cover)

\* ---- PandasConverter ------------------------------------------------------

\* A raw property is a record with its type tag and, under the name of the
\* tag, the tag's data.  Where a Python value is None or a structured value,
\* None is NoneProp.

supported_properties ==
    {"checkbox", "date", "number", "rich_text", "title", "files", "select",
     "multi_select", "relation"}

text_types == {"rich_text", "title"}

is_supported(prop) == prop.type \in supported_properties

\* text += plain_text over the runs, starting from ""
RECURSIVE Concat(_)
Concat(runs) == IF Len(runs) = 0 THEN "" ELSE Head(runs) \o Concat(Tail(runs))

\* PandasConverter.get_text: the plain_text of the runs, in order
get_text(text_object) ==
    Concat(IF text_object.type = "title" THEN text_object.title ELSE text_object.rich_text)

\* the date read only up to its start
get_date_start_only(date_object) ==
    IF date_object.date # NoneProp THEN <<date_object.date.start>> ELSE <<>>

\* PandasConverter.get_date
get_date(date_object) ==
    LET date_value == date_object.date
    IN  IF date_value # NoneProp
        THEN IF date_value.end = None
             THEN <<date_value.start>>
             ELSE <<date_value.start, date_value.end>>
        ELSE <<>>

\* PandasConverter.get_file: only the first file, and only an external one
get_file(file_object) ==
    IF Len(file_object.files) = 0 THEN None
    ELSE IF file_object.files[1].type = "external" THEN file_object.files[1].url
    ELSE None

\* PandasConverter.get_select: the option is kept by its name
get_select(select_object) == select_object.select

\* PandasConverter.get_multi_select
get_multi_select(multi_select_object) ==
    [i \in 1..Len(multi_select_object.multi_select) |-> multi_select_object.multi_select[i]]

\* the titles of the related pages, as the remote service holds them
TitleOf(rel_id) == IF rel_id = 1 THEN "Dune Chronicles" ELSE "Heroes of Dune"

\* PandasConverter.get_relation_title on the response of the title lookup
get_relation_title(ok, rel_id) == IF ok THEN TitleOf(rel_id) ELSE None

\* what get_relation returns for a relation that is not empty
TitleList(ts) == [type |-> "list", items |-> ts]

\* PandasConverter.get_property_value for every tag but a relation with
\* related pages, whose titles are looked up one request at a time
get_property_value(prop) ==
    IF prop.type \in text_types THEN get_text(prop)
    ELSE IF prop.type = "date" THEN get_date(prop)
    ELSE IF prop.type = "files" THEN get_file(prop)
    ELSE IF prop.type = "select" THEN get_select(prop)
    ELSE IF prop.type = "multi_select" THEN get_multi_select(prop)
    ELSE IF prop.type = "relation" THEN NoneProp
    ELSE IF prop.type = "number" THEN prop.number
    ELSE prop.checkbox

\* ---- raw results handed to the converter -----------------------------------

\* the properties of a result, in the order the response lists them
PropertyOrder ==
    <<"Name", "Type", "Cover", "Authors", "Language of original publication",
      "Genre", "Start and End", "Rate", "Current on", "Total Pages",
      "Number in Series", "Owned", "Notes", "Series">>

\* categories: registered in properties_needed_by_type, in the rename table
\* only, or in neither
TypeShapes == {"Book", "Novella", "Poetry", "Short Story", "Audiobook"}

CoverShapes ==
    { <<>>,
      <<[type |-> "external", url |-> "https://covers/own.jpg"]>>,
      <<[type |-> "file", url |-> "https://s3/upload.jpg"]>> }

AuthorShapes == { <<>>, <<"Herbert">>, <<"Herbert", "Anderson">> }

DateShapes ==
    { NoneProp,
      [start |-> "2022-01-01", end |-> None],
      [start |-> "2022-01-01", end |-> "2022-02-01"] }

\* the three numbers of a result: all set, or one of them null
NumberShapes ==
    { [current |-> "120", total |-> "412", series |-> "1"],
      [current |-> None, total |-> "412", series |-> "1"],
      [current |-> "120", total |-> None, series |-> "1"],
      [current |-> "120", total |-> "412", series |-> None] }

\* a property of a supported tag, or of a tag the converter does not support
NotesShapes ==
    { [type |-> "rich_text", rich_text |-> <<"re", "read">>],
      [type |-> "url", url |-> "https://notes"] }

RelationShapes == { [i \in 1..n |-> i] : n \in 0..MaxRel }

RawResult(t, cover, authors, date, nums, notes, rel) ==
    [id |-> 1,
     properties |->
        [n \in {PropertyOrder[i] : i \in 1..Len(PropertyOrder)} |->
            IF n = "Name" THEN [type |-> "title", title |-> <<"Du", "ne">>]
            ELSE IF n = "Type" THEN [type |-> "select", select |-> t]
            ELSE IF n = "Cover" THEN [type |-> "files", files |-> cover]
            ELSE IF n = "Authors" THEN [type |-> "multi_select", multi_select |-> authors]
            ELSE IF n = "Language of original publication"
                 THEN [type |-> "select", select |-> None]
            ELSE IF n = "Genre" THEN [type |-> "multi_select", multi_select |-> <<"Sci-fi">>]
            ELSE IF n = "Start and End" THEN [type |-> "date", date |-> date]
            ELSE IF n = "Rate" THEN [type |-> "select", select |-> "5"]
            ELSE IF n = "Current on" THEN [type |-> "number", number |-> nums.current]
            ELSE IF n = "Total Pages" THEN [type |-> "number", number |-> nums.total]
            ELSE IF n = "Number in Series" THEN [type |-> "number", number |-> nums.series]
            ELSE IF n = "Owned" THEN [type |-> "checkbox", checkbox |-> TRUE]
            ELSE IF n = "Notes" THEN notes
            ELSE [type |-> "relation", relation |-> rel]]]

RawResults ==
    { RawResult(t, cover, authors, date, nums, notes, rel) :
        t \in TypeShapes, cover \in CoverShapes, authors \in AuthorShapes,
        date \in DateShapes, nums \in NumberShapes, notes \in NotesShapes,
        rel \in RelationShapes }

NoResult == [id |-> 0, properties |-> [n \in {} |-> NoneProp]]

NoRecord == [n \in {} |-> None]

NoRow == [page_id |-> 0]

NoValue == [prop |-> None, value |-> NoneProp]

\* the columns of the DataFrame that hold numbers
NumberColumns == {"Current on", "Total Pages", "Number in Series"}

\* pd.DataFrame(records), line 323, and the row iterrows() yields: a None in
\* a column that holds numbers in other rows (the columns nan) comes back as
\* NaN, in a column without numbers as None
Cell(rec, column, nan) ==
    IF rec[column] = None /\ column \in nan THEN "NaN" ELSE rec[column]

RowOfRecord(rec, nan) ==
    [page_id |-> rec["page_id"],
     Type |-> rec["Type"],
     Cover |-> rec["Cover"],
     Name |-> rec["Name"],
     Authors |-> rec["Authors"],
     Language |-> rec["Language of original publication"],
     Genre |-> rec["Genre"],
     StartEnd |-> rec["Start and End"],
     Rate |-> rec["Rate"],
     CurrentOn |-> Cell(rec, "Current on", nan),
     TotalPages |-> Cell(rec, "Total Pages", nan),
     NumberInSeries |-> Cell(rec, "Number in Series", nan),
     Owned |-> rec["Owned"]]

\* ---- enrichment clients of the old variant --------------------------------

\* what the Google Books search can answer: the request failed (query() logs
\* and returns None), a body without "items", or a first item whose
\* industryIdentifiers hold no ISBN, only ISBN_10, only ISBN_13, or both
SearchAnswers == {"error", "noitems", "noisbn", "only10", "only13", "both"}

\* what the Open Library lookup can answer: the request failed, a body
\* without an entry for the ISBN, or an entry with a thumbnail
LookupAnswers == {"error", "nocover", "cover"}

\* GoogleBooksClient.get_isbn: indexing None or a body without "items" raises;
\* the tests `isbn10 not in vars()` read the local names themselves, so a
\* missing identifier raises UnboundLocalError, and with both bound the first
\* test holds (an ISBN string is no local name) and isbn13 is returned.
get_isbn(answer) ==
    IF answer = "error" THEN Raise("TypeError", "get_isbn")
    ELSE IF answer = "noitems" THEN Raise("KeyError", "get_isbn")
    ELSE IF answer = "both" THEN [kind |-> "ok", value |-> "9780441013593", where |-> None]
    ELSE Raise("UnboundLocalError", "get_isbn")

\* OpenLibraryClient.get_cover_url: a failed request is caught and None is
\* returned; the else branch indexes the body, so a missing entry raises
\* KeyError; otherwise the thumbnail URL with -S.jpg replaced by -M.jpg.
ol_get_cover_url(answer) ==
    IF answer = "error" THEN [kind |-> "ok", value |-> None, where |-> None]
    ELSE IF answer = "nocover" THEN Raise("KeyError", "ol_get_cover_url")
    ELSE [kind |-> "ok", value |-> "https://covers.openlibrary.org/b/id/1-M.jpg", where |-> None]

\* ---- the run: main() ------------------------------------------------------

NoFilter == [kind |-> "none"]

NoProperties == [k \in {} |-> NoneProp]

Request(kind, id) == [kind |-> kind, id |-> id, filtered |-> FALSE, cursor |-> 0]

\* the command lines of the runs.  Both parsers define --test (args.test).
\* The new variant's transfer_entries reads args.text, which its parser does
\* not define: the attribute is absent on a Namespace of that parser and
\* present only on an args object a caller built with it.
ArgsNew ==
    [status : {None}, type : {None, "Book"}, standalone : {FALSE}, year : {None},
     test : {"True", "False"}, text : {"absent", "True", "False"}]

ArgsOld ==
    [status : {None}, type : {None, "Book"}, standalone : {FALSE},
     year : {None, "2023", "1999"}, test : {"True", "False"}, text : {"absent"}]

\* every combination of the selection criteria
ArgsAll ==
    [status : {None, "0", "1", "2"}, type : {None, "Book", "Manga"},
     standalone : BOOLEAN, year : {None, "2023", "Grad", "1999"},
     test : {"False"}, text : {"absent"}]

DefaultArgs ==
    [status |-> None, type |-> None, standalone |-> FALSE, year |-> None,
     test |-> "False", text |-> "absent"]

LeafPool ==
    {not_transferred, StatusLeaf("Read"), TypeLeaf("Book"), StandaloneLeaf,
     YearLeaf(year_page_id["2023"])}

NoLoad == [state |-> "none", recs |-> {}]

\* the variables of one process, as they are when the script starts
FreshProcess ==
    /\ filter_object = NoFilter
    /\ db_response_obj = NoResponse
    /\ records = <<>>
    /\ firstOk = "none"
    /\ fails = 0
    /\ df = <<>>
    /\ idx = 0
    /\ cover_url = None
    /\ isbn = None
    /\ properties = NoProperties
    /\ inflight = {}
    /\ aborted = NoAbort
    /\ issuedKinds = {}
    /\ createIssued = <<>>
    /\ createOk = {}
    /\ createFailed = {}
    /\ updIssued = {}
    /\ lastSearch = None
    /\ lastLookup = None
    /\ record = NoRecord
    /\ todo = <<>>
    /\ titles = <<>>
    /\ row = NoRow
    /\ prop_value = NoValue
    /\ titleOk = <<>>

Init ==
    /\ variant \in {"new", "old"}
    /\ args \in (IF variant = "new" THEN ArgsNew ELSE ArgsOld)
    /\ src \in {[i \in Ids |-> MakePage(i, sh[i])] : sh \in [Ids -> PageShapes]}
    /\ run = 1
    /\ pc = "start"
    /\ filters = <<>>
    /\ prevLoad = NoLoad
    /\ updSince = FALSE
    /\ allSucceeded = TRUE
    /\ result = NoResult
    /\ FreshProcess

\* an exception leaves main(): the process ends
Abort(exc) ==
    /\ aborted' = exc
    /\ pc' = "done"

SetOf(s) == {s[i] : i \in 1..Len(s)}

\* main(): FilterCreator(args), then PandasLoader.__init__ calls create_filter
Construct ==
    /\ pc = "start"
    /\ LET f == create_filter(variant, args)
       IN  IF f.kind = "raise"
           THEN /\ Abort(f)
                /\ UNCHANGED filter_object
           ELSE /\ filter_object' = f
                /\ pc' = "load"
                /\ UNCHANGED aborted
    /\ UNCHANGED <<convVars, allSucceeded, variant, args, src, run, filters, db_response_obj, records, firstOk,
                   fails, df, idx, cover_url, isbn, properties, inflight, issuedKinds,
                   createIssued, createOk, createFailed, updIssued, lastSearch,
                   lastLookup, prevLoad, updSince>>

\* load_db, line 308: the first query carries the filter object
LoadFirstIssue ==
    /\ pc = "load"
    /\ inflight' = inflight \cup {QueryRequest(TRUE, 0)}
    /\ issuedKinds' = issuedKinds \cup {"query"}
    /\ pc' = "q1_wait"
    /\ UNCHANGED <<convVars, allSucceeded, variant, args, src, run, filter_object, filters, db_response_obj,
                   records, firstOk, fails, df, idx, cover_url, isbn, properties,
                   aborted, createIssued, createOk, createFailed, updIssued,
                   lastSearch, lastLookup, prevLoad, updSince>>

\* load_db, lines 309-314: records = [], and on an ok response the first page
LoadFirstReturn ==
    /\ pc = "q1_wait"
    /\ \E req \in inflight, ok \in BOOLEAN :
        /\ req.kind = "query"
        /\ inflight' = inflight \ {req}
        /\ IF ok
           THEN LET resp == ServiceQuery(src, req, filter_object)
                IN  /\ db_response_obj' = resp
                    /\ records' = resp.results
                    /\ firstOk' = "ok"
                    /\ pc' = IF resp.has_more THEN "page" ELSE "loaded"
           ELSE /\ records' = <<>>
                /\ firstOk' = "fail"
                /\ pc' = "loaded"
                /\ UNCHANGED db_response_obj
    /\ UNCHANGED <<convVars, allSucceeded, variant, args, src, run, filter_object, filters, fails, df, idx,
                   cover_url, isbn, properties, aborted, issuedKinds, createIssued,
                   createOk, createFailed, updIssued, lastSearch, lastLookup,
                   prevLoad, updSince>>

\* load_db, lines 315-318: the next page is asked for with the cursor alone
LoadNextIssue ==
    /\ pc = "page"
    /\ inflight' = inflight \cup {QueryRequest(FALSE, db_response_obj.next_cursor)}
    /\ issuedKinds' = issuedKinds \cup {"query"}
    /\ pc' = "qn_wait"
    /\ UNCHANGED <<convVars, allSucceeded, variant, args, src, run, filter_object, filters, db_response_obj,
                   records, firstOk, fails, df, idx, cover_url, isbn, properties,
                   aborted, createIssued, createOk, createFailed, updIssued,
                   lastSearch, lastLookup, prevLoad, updSince>>

\* a failed page query ends the pagination with what was loaded
LoadNextReturnBreak ==
    /\ pc = "qn_wait"
    /\ \E req \in inflight, ok \in BOOLEAN :
        /\ req.kind = "query"
        /\ inflight' = inflight \ {req}
        /\ IF ok
           THEN LET resp == ServiceQuery(src, req, filter_object)
                IN  /\ db_response_obj' = resp
                    /\ records' = records \o resp.results
                    /\ pc' = IF resp.has_more THEN "page" ELSE "loaded"
                    /\ UNCHANGED fails
           ELSE /\ fails' = IF fails < MaxFail THEN fails + 1 ELSE fails
                /\ pc' = "loaded"
                /\ UNCHANGED <<db_response_obj, records>>
    /\ UNCHANGED <<convVars, allSucceeded, variant, args, src, run, filter_object, filters, firstOk, df, idx,
                   cover_url, isbn, properties, aborted, issuedKinds, createIssued,
                   createOk, createFailed, updIssued, lastSearch, lastLookup,
                   prevLoad, updSince>>

\* load_db, lines 319-321: an ok response replaces db_response_obj and extends
\* records; any other response leaves db_response_obj as it was, so has_more
\* is still true and the loop asks for the same cursor again, as often as
\* the query fails.
LoadNextReturn ==
    /\ pc = "qn_wait"
    /\ \E req \in inflight, ok \in BOOLEAN :
        /\ req.kind = "query"
        /\ inflight' = inflight \ {req}
        /\ IF ok
           THEN LET resp == ServiceQuery(src, req, filter_object)
                IN  /\ db_response_obj' = resp
                    /\ records' = records \o resp.results
                    /\ pc' = IF resp.has_more THEN "page" ELSE "loaded"
                    /\ UNCHANGED fails
           ELSE /\ fails' = IF fails < MaxFail THEN fails + 1 ELSE fails
                /\ pc' = "page"
                /\ UNCHANGED <<db_response_obj, records>>
    /\ UNCHANGED <<convVars, allSucceeded, variant, args, src, run, filter_object, filters, firstOk, df, idx,
                   cover_url, isbn, properties, aborted, issuedKinds, createIssued,
                   createOk, createFailed, updIssued, lastSearch, lastLookup,
                   prevLoad, updSince>>

\* the row transfer_entries is at
Row == EntryOf(src, df[idx])

\* the sample switch transfer_entries reads: args.text in the new variant
\* (line 366), args.test in the old one (line 512)
SampleSwitch == IF variant = "new" THEN args.text ELSE args.test

\* transfer_entries, the sample switch: reading an absent attribute raises
\* AttributeError; df.sample(n=1) keeps one row and raises ValueError on an
\* empty frame.
TransferStart ==
    /\ pc = "loaded"
    /\ prevLoad' = [state |-> firstOk, recs |-> SetOf(records)]
    /\ updSince' = FALSE
    /\ IF SampleSwitch = "absent"
       THEN /\ Abort(Raise("AttributeError", "transfer_entries"))
            /\ UNCHANGED <<df, idx>>
       ELSE IF SampleSwitch = "True"
       THEN IF Len(records) = 0
            THEN /\ Abort(Raise("ValueError", "transfer_entries"))
                 /\ UNCHANGED <<df, idx>>
            ELSE /\ \E i \in 1..Len(records) : df' = <<records[i]>>
                 /\ idx' = 1
                 /\ pc' = "row"
                 /\ UNCHANGED aborted
       ELSE /\ df' = records
            /\ idx' = 1
            /\ pc' = "row"
            /\ UNCHANGED aborted
    /\ UNCHANGED <<convVars, allSucceeded, variant, args, src, run, filter_object, filters, db_response_obj,
                   records, firstOk, fails, cover_url, isbn, properties, inflight,
                   issuedKinds, createIssued, createOk, createFailed, updIssued,
                   lastSearch, lastLookup>>

\* get_cover_url without the early return: the lookups run for every row
RowCoverAlwaysLookup ==
    /\ pc = "row"
    /\ variant = "old"
    /\ idx <= Len(df)
    /\ pc' = "search"
    /\ UNCHANGED <<convVars, allSucceeded, variant, args, src, run, filter_object, filters, db_response_obj,
                   records, firstOk, fails, df, idx, cover_url, isbn, properties, inflight,
                   aborted, issuedKinds, createIssued, createOk, createFailed,
                   updIssued, lastSearch, lastLookup, prevLoad, updSince>>

\* create_payload -> get_cover_url (old), lines 253-257: a cover that is
\* present is returned as it is, otherwise the ISBN search starts
RowCover ==
    /\ pc = "row"
    /\ variant = "old"
    /\ idx <= Len(df)
    /\ IF Row.Cover # None
       THEN /\ cover_url' = Row.Cover
            /\ pc' = "compile"
       ELSE /\ pc' = "search"
            /\ UNCHANGED cover_url
    /\ UNCHANGED <<convVars, allSucceeded, variant, args, src, run, filter_object, filters, db_response_obj,
                   records, firstOk, fails, df, idx, isbn, properties, inflight,
                   aborted, issuedKinds, createIssued, createOk, createFailed,
                   updIssued, lastSearch, lastLookup, prevLoad, updSince>>

\* GoogleBooksClient.query: the search request
SearchIssue ==
    /\ pc = "search"
    /\ inflight' = inflight \cup {Request("search", df[idx])}
    /\ issuedKinds' = issuedKinds \cup {"search"}
    /\ pc' = "search_wait"
    /\ UNCHANGED <<convVars, allSucceeded, variant, args, src, run, filter_object, filters, db_response_obj,
                   records, firstOk, fails, df, idx, cover_url, isbn, properties,
                   aborted, createIssued, createOk, createFailed, updIssued,
                   lastSearch, lastLookup, prevLoad, updSince>>

\* get_isbn on the search's answer, then get_cover_url lines 258-261: with an
\* ISBN the cover lookup follows; with None the return of the unbound
\* cover_url raises UnboundLocalError
SearchReturn ==
    /\ pc = "search_wait"
    /\ \E req \in inflight, answer \in SearchAnswers :
        /\ req.kind = "search"
        /\ inflight' = inflight \ {req}
        /\ lastSearch' = answer
        /\ LET r == get_isbn(answer)
           IN  IF r.kind = "raise"
               THEN /\ Abort(r)
                    /\ UNCHANGED isbn
               ELSE IF r.value = None
               THEN /\ Abort(Raise("UnboundLocalError", "get_cover_url"))
                    /\ UNCHANGED isbn
               ELSE /\ isbn' = r.value
                    /\ pc' = "lookup"
                    /\ UNCHANGED aborted
    /\ UNCHANGED <<convVars, allSucceeded, variant, args, src, run, filter_object, filters, db_response_obj,
                   records, firstOk, fails, df, idx, cover_url, properties,
                   issuedKinds, createIssued, createOk, createFailed, updIssued,
                   lastLookup, prevLoad, updSince>>

\* OpenLibraryClient.get_cover_url: the lookup request
LookupIssue ==
    /\ pc = "lookup"
    /\ inflight' = inflight \cup {Request("lookup", df[idx])}
    /\ issuedKinds' = issuedKinds \cup {"lookup"}
    /\ pc' = "lookup_wait"
    /\ UNCHANGED <<convVars, allSucceeded, variant, args, src, run, filter_object, filters, db_response_obj,
                   records, firstOk, fails, df, idx, cover_url, isbn, properties,
                   aborted, createIssued, createOk, createFailed, updIssued,
                   lastSearch, lastLookup, prevLoad, updSince>>

\* the lookup's answer becomes get_cover_url's result
LookupReturn ==
    /\ pc = "lookup_wait"
    /\ \E req \in inflight, answer \in LookupAnswers :
        /\ req.kind = "lookup"
        /\ inflight' = inflight \ {req}
        /\ lastLookup' = answer
        /\ LET r == ol_get_cover_url(answer)
           IN  IF r.kind = "raise"
               THEN /\ Abort(r)
                    /\ UNCHANGED cover_url
               ELSE /\ cover_url' = r.value
                    /\ pc' = "compile"
                    /\ UNCHANGED aborted
    /\ UNCHANGED <<convVars, allSucceeded, variant, args, src, run, filter_object, filters, db_response_obj,
                   records, firstOk, fails, df, idx, isbn, properties, issuedKinds,
                   createIssued, createOk, createFailed, updIssued, lastSearch,
                   prevLoad, updSince>>

\* compile_properties for the row: the new variant's loop body starts here,
\* the old variant's create_payload gets here with the cover URL
RowCompile ==
    /\ \/ pc = "row" /\ variant = "new" /\ idx <= Len(df)
       \/ pc = "compile"
    /\ LET p == compile_properties(variant, Row, cover_url)
       IN  IF p.kind = "raise"
           THEN /\ Abort(p)
                /\ UNCHANGED properties
           ELSE /\ properties' = p.value
                /\ pc' = "create"
                /\ UNCHANGED aborted
    /\ UNCHANGED <<convVars, allSucceeded, variant, args, src, run, filter_object, filters, db_response_obj,
                   records, firstOk, fails, df, idx, cover_url, isbn, inflight,
                   issuedKinds, createIssued, createOk, createFailed, updIssued,
                   lastSearch, lastLookup, prevLoad, updSince>>

\* NotionClient.create_page: the create request for the row
CreateIssue ==
    /\ pc = "create"
    /\ inflight' = inflight \cup {Request("create", df[idx])}
    /\ issuedKinds' = issuedKinds \cup {"create"}
    /\ createIssued' = Append(createIssued, df[idx])
    /\ pc' = "create_wait"
    /\ UNCHANGED <<convVars, allSucceeded, variant, args, src, run, filter_object, filters, db_response_obj,
                   records, firstOk, fails, df, idx, cover_url, isbn, properties,
                   aborted, createOk, createFailed, updIssued, lastSearch,
                   lastLookup, prevLoad, updSince>>

\* the row's locals are dropped when the loop moves on
NextRow ==
    /\ idx' = idx + 1
    /\ cover_url' = None
    /\ isbn' = None
    /\ properties' = NoProperties
    /\ lastSearch' = None
    /\ lastLookup' = None
    /\ pc' = "row"

\* the create response: both branches only print.  The new variant goes on to
\* update_transferred (line 378, outside the if); the old variant's call of
\* update_transferred is commented out (line 519), its loop moves on.
CreateReturn ==
    /\ pc = "create_wait"
    /\ \E req \in inflight, ok \in BOOLEAN :
        /\ req.kind = "create"
        /\ inflight' = inflight \ {req}
        /\ createOk' = IF ok THEN createOk \cup {req.id} ELSE createOk
        /\ createFailed' = IF ok THEN createFailed ELSE createFailed \cup {req.id}
        /\ allSucceeded' = (allSucceeded /\ ok)
    /\ IF variant = "new"
       THEN /\ pc' = "update"
            /\ UNCHANGED <<idx, cover_url, isbn, properties, lastSearch, lastLookup>>
       ELSE NextRow
    /\ UNCHANGED <<convVars, variant, args, src, run, filter_object, filters, db_response_obj,
                   records, firstOk, fails, df, aborted, issuedKinds, createIssued,
                   updIssued, prevLoad, updSince>>

\* the update issued together with the create, before the create returns
UpdateIssueEarly ==
    /\ pc = "create_wait"
    /\ variant = "new"
    /\ df[idx] \notin updIssued
    /\ inflight' = inflight \cup {Request("update", df[idx])}
    /\ issuedKinds' = issuedKinds \cup {"update"}
    /\ updIssued' = updIssued \cup {df[idx]}
    /\ UNCHANGED <<convVars, allSucceeded, variant, args, src, run, pc, filter_object, filters, db_response_obj,
                   records, firstOk, fails, df, idx, cover_url, isbn, properties,
                   aborted, createIssued, createOk, createFailed, lastSearch,
                   lastLookup, prevLoad, updSince>>

\* update_transferred (new), line 378: issued once the create has returned,
\* whatever the create's response was
UpdateIssue ==
    /\ pc = "update"
    /\ inflight' = inflight \cup {Request("update", df[idx])}
    /\ issuedKinds' = issuedKinds \cup {"update"}
    /\ updIssued' = updIssued \cup {df[idx]}
    /\ pc' = "update_wait"
    /\ UNCHANGED <<convVars, allSucceeded, variant, args, src, run, filter_object, filters, db_response_obj,
                   records, firstOk, fails, df, idx, cover_url, isbn, properties,
                   aborted, createIssued, createOk, createFailed, lastSearch,
                   lastLookup, prevLoad, updSince>>

\* the update's response is returned and dropped; an update that succeeded
\* has set the page's "Transferred to new db?" checkbox
UpdateReturn ==
    /\ pc = "update_wait"
    /\ \E req \in inflight, ok \in BOOLEAN :
        /\ req.kind = "update"
        /\ inflight' = inflight \ {req}
        /\ src' = IF ok THEN [src EXCEPT ![req.id].transferred = TRUE] ELSE src
        /\ updSince' = (updSince \/ ok)
        /\ allSucceeded' = (allSucceeded /\ ok)
    /\ NextRow
    /\ UNCHANGED <<convVars, variant, args, run, filter_object, filters, db_response_obj,
                   records, firstOk, fails, df, aborted, issuedKinds, createIssued,
                   createOk, createFailed, updIssued, prevLoad>>

\* the for loop of transfer_entries is exhausted: main() returns
RowEnd ==
    /\ pc = "row"
    /\ idx > Len(df)
    /\ pc' = "done"
    /\ UNCHANGED <<convVars, allSucceeded, variant, args, src, run, filter_object, filters, db_response_obj,
                   records, firstOk, fails, df, idx, cover_url, isbn, properties,
                   inflight, aborted, issuedKinds, createIssued, createOk,
                   createFailed, updIssued, lastSearch, lastLookup, prevLoad, updSince>>

\* the script is started again, a fresh process on the same database
NextRun ==
    /\ pc = "done"
    /\ run < MaxRuns
    /\ run' = run + 1
    /\ pc' = "start"
    /\ filter_object' = NoFilter
    /\ db_response_obj' = NoResponse
    /\ records' = <<>>
    /\ firstOk' = "none"
    /\ fails' = 0
    /\ df' = <<>>
    /\ idx' = 0
    /\ cover_url' = None
    /\ isbn' = None
    /\ properties' = NoProperties
    /\ inflight' = {}
    /\ aborted' = NoAbort
    /\ issuedKinds' = {}
    /\ createIssued' = <<>>
    /\ createOk' = {}
    /\ createFailed' = {}
    /\ updIssued' = {}
    /\ lastSearch' = None
    /\ lastLookup' = None
    /\ UNCHANGED <<convVars, allSucceeded, variant, args, src, filters, prevLoad, updSince>>

Next ==
    \/ Construct
    \/ LoadFirstIssue
    \/ LoadFirstReturn
    \/ LoadNextIssue
    \/ LoadNextReturn
    \/ TransferStart
    \/ RowCover
    \/ SearchIssue
    \/ SearchReturn
    \/ LookupIssue
    \/ LookupReturn
    \/ RowCompile
    \/ CreateIssue
    \/ CreateReturn
    \/ UpdateIssue
    \/ UpdateReturn
    \/ RowEnd
    \/ NextRun

Spec == Init /\ [][Next]_vars

\* ---- the filter functions applied to drawn inputs -------------------------

InitFn ==
    /\ \/ /\ pc = "fn_list"
          /\ filters \in UNION {[1..n -> LeafPool] : n \in 0..MaxLeaves}
          /\ variant = "old"
          /\ args = DefaultArgs
       \/ /\ pc = "fn_args"
          /\ filters = <<>>
          /\ variant \in {"new", "old"}
          /\ args \in ArgsAll
    /\ src = [i \in Ids |-> MakePage(i, [Type |-> "Book", Cover |-> None])]
    /\ run = 1
    /\ prevLoad = NoLoad
    /\ updSince = FALSE
    /\ allSucceeded = TRUE
    /\ result = NoResult
    /\ FreshProcess

\* dict_list_to_object applied to the drawn list
ApplyDictList ==
    /\ pc = "fn_list"
    /\ filter_object' = dict_list_to_object(filters)
    /\ pc' = "fn_list_done"
    /\ UNCHANGED <<convVars, allSucceeded, variant, args, src, run, filters, db_response_obj, records, firstOk,
                   fails, df, idx, cover_url, isbn, properties, inflight, aborted,
                   issuedKinds, createIssued, createOk, createFailed, updIssued,
                   lastSearch, lastLookup, prevLoad, updSince>>

\* create_filter applied to the drawn criteria
ApplyCreateFilter ==
    /\ pc = "fn_args"
    /\ filter_object' = create_filter(variant, args)
    /\ pc' = "fn_args_done"
    /\ UNCHANGED <<convVars, allSucceeded, variant, args, src, run, filters, db_response_obj, records, firstOk,
                   fails, df, idx, cover_url, isbn, properties, inflight, aborted,
                   issuedKinds, createIssued, createOk, createFailed, updIssued,
                   lastSearch, lastLookup, prevLoad, updSince>>

NextFn == ApplyDictList \/ ApplyCreateFilter

SpecFn == InitFn /\ [][NextFn]_vars

\* ---- the converter and the property mapping applied to drawn inputs -------

\* the variables of a run that the converter and the mapping leave alone
pipelineVars ==
    <<variant, args, src, run, filter_object, filters, db_response_obj, records,
      firstOk, fails, df, idx, cover_url, isbn, issuedKinds, createIssued,
      createOk, createFailed, updIssued, lastSearch, lastLookup, prevLoad, updSince,
      allSucceeded>>

InitRec ==
    /\ pc = "get_record"
    /\ variant \in {"new", "old"}
    /\ args = DefaultArgs
    /\ result \in RawResults
    /\ src = [i \in Ids |-> MakePage(i, [Type |-> "Book", Cover |-> None])]
    /\ run = 1
    /\ filters = <<>>
    /\ prevLoad = NoLoad
    /\ updSince = FALSE
    /\ allSucceeded = TRUE
    /\ FreshProcess

\* get_record, lines 167-168: the record starts with the page id
GetRecordStart ==
    /\ pc = "get_record"
    /\ record' = ("page_id" :> result.id)
    /\ todo' = PropertyOrder
    /\ pc' = "gr_loop"
    /\ UNCHANGED <<pipelineVars, properties, inflight, aborted, result, titles, row,
                   prop_value, titleOk>>

\* the property under the loop of get_record
CurrentProp == result.properties[Head(todo)]

\* get_record with an entry of None for a property that is not supported
GetRecordPropertyKeepNone ==
    /\ pc = "gr_loop"
    /\ Len(todo) > 0
    /\ IF ~is_supported(CurrentProp)
       THEN /\ record' = (Head(todo) :> None) @@ record
            /\ todo' = Tail(todo)
            /\ UNCHANGED <<titles, pc>>
       ELSE IF CurrentProp.type = "relation" /\ Len(CurrentProp.relation) > 0
       THEN /\ titles' = <<>>
            /\ pc' = "relation"
            /\ UNCHANGED <<record, todo>>
       ELSE /\ record' = (Head(todo) :> get_property_value(CurrentProp)) @@ record
            /\ todo' = Tail(todo)
            /\ UNCHANGED <<titles, pc>>
    /\ UNCHANGED <<pipelineVars, properties, inflight, aborted, result, row, prop_value,
                   titleOk>>

\* get_record, lines 169-171: one property of the result.  A property that
\* is not supported is passed over; a relation with related pages enters the
\* loop of get_relation (lines 271-272); any other property is converted.
GetRecordProperty ==
    /\ pc = "gr_loop"
    /\ Len(todo) > 0
    /\ IF ~is_supported(CurrentProp)
       THEN /\ todo' = Tail(todo)
            /\ UNCHANGED <<record, titles, pc>>
       ELSE IF CurrentProp.type = "relation" /\ Len(CurrentProp.relation) > 0
       THEN /\ titles' = <<>>
            /\ pc' = "relation"
            /\ UNCHANGED <<record, todo>>
       ELSE /\ record' = (Head(todo) :> get_property_value(CurrentProp)) @@ record
            /\ todo' = Tail(todo)
            /\ UNCHANGED <<titles, pc>>
    /\ UNCHANGED <<pipelineVars, properties, inflight, aborted, result, row, prop_value,
                   titleOk>>

\* get_relation_title, lines 281-282: the title lookup of the next related page
RelationIssue ==
    /\ pc = "relation"
    /\ inflight' = inflight \cup {Request("title", CurrentProp.relation[Len(titles) + 1])}
    /\ pc' = "relation_wait"
    /\ UNCHANGED <<pipelineVars, properties, aborted, result, record, todo, titles, row,
                   prop_value, titleOk>>

\* a failed title lookup entered as an empty title
RelationReturnBlank ==
    /\ pc = "relation_wait"
    /\ \E req \in inflight, ok \in BOOLEAN :
        /\ req.kind = "title"
        /\ inflight' = inflight \ {req}
        /\ titleOk' = Append(titleOk, ok)
        /\ LET ts == Append(titles, IF ok THEN get_relation_title(ok, req.id) ELSE "")
           IN  /\ titles' = ts
               /\ IF Len(ts) = Len(CurrentProp.relation)
                  THEN /\ record' = (Head(todo) :> TitleList(ts)) @@ record
                       /\ todo' = Tail(todo)
                       /\ pc' = "gr_loop"
                  ELSE /\ pc' = "relation"
                       /\ UNCHANGED <<record, todo>>
    /\ UNCHANGED <<pipelineVars, properties, aborted, result, row, prop_value>>

\* get_relation, lines 272-275: the title (or None) is appended; after the
\* last related page the list is the property's value
RelationReturn ==
    /\ pc = "relation_wait"
    /\ \E req \in inflight, ok \in BOOLEAN :
        /\ req.kind = "title"
        /\ inflight' = inflight \ {req}
        /\ titleOk' = Append(titleOk, ok)
        /\ LET ts == Append(titles, get_relation_title(ok, req.id))
           IN  /\ titles' = ts
               /\ IF Len(ts) = Len(CurrentProp.relation)
                  THEN /\ record' = (Head(todo) :> TitleList(ts)) @@ record
                       /\ todo' = Tail(todo)
                       /\ pc' = "gr_loop"
                  ELSE /\ pc' = "relation"
                       /\ UNCHANGED <<record, todo>>
    /\ UNCHANGED <<pipelineVars, properties, aborted, result, row, prop_value>>

\* get_record, line 172: every property has been visited
GetRecordReturn ==
    /\ pc = "gr_loop"
    /\ Len(todo) = 0
    /\ pc' = "gr_done"
    /\ UNCHANGED <<pipelineVars, properties, inflight, aborted, convVars>>

\* the record becomes a row of the DataFrame
MakeRow ==
    /\ pc = "gr_done"
    /\ \E nan \in SUBSET NumberColumns : row' = RowOfRecord(record, nan)
    /\ pc' = "row_made"
    /\ UNCHANGED <<pipelineVars, properties, inflight, aborted, result, record, todo,
                   titles, prop_value, titleOk>>

\* the destination properties retrieve_property_value is applied to
PropsRetrieved == {"0 Type", "1 Author(s)", "1 Dates read"}

retrieve_property_value(v, prop, entry, cover) ==
    IF v = "new" THEN retrieve_property_value_new(prop, entry)
    ELSE retrieve_property_value_old(prop, entry, cover)

\* retrieve_property_value applied to the row
ApplyRetrieve ==
    /\ pc = "row_made"
    /\ \E p \in PropsRetrieved :
        prop_value' = [prop |-> p,
                       value |-> retrieve_property_value(variant, p, row, row.Cover)]
    /\ pc' = "retrieved"
    /\ UNCHANGED <<pipelineVars, properties, inflight, aborted, result, record, todo,
                   titles, row, titleOk>>

\* compile_properties applied to the row
ApplyCompile ==
    /\ pc = "row_made"
    /\ LET p == compile_properties(variant, row, row.Cover)
       IN  IF p.kind = "raise"
           THEN /\ aborted' = p
                /\ UNCHANGED properties
           ELSE /\ properties' = p.value
                /\ UNCHANGED aborted
    /\ pc' = "compiled"
    /\ UNCHANGED <<pipelineVars, inflight, convVars>>

NextRec ==
    \/ GetRecordStart
    \/ GetRecordProperty
    \/ RelationIssue
    \/ RelationReturn
    \/ GetRecordReturn
    \/ MakeRow
    \/ ApplyRetrieve
    \/ ApplyCompile

SpecRec == InitRec /\ [][NextRec]_vars

\* ---- properties -----------------------------------------------------------

\* the shape of a filter object: depth, leaves left to right, midpoint split
Max(a, b) == IF a >= b THEN a ELSE b

RECURSIVE Depth(_)
Depth(t) == IF t.kind = "and" THEN 1 + Max(Depth(t.l), Depth(t.r)) ELSE 0

RECURSIVE LeavesOf(_)
LeavesOf(t) == IF t.kind = "and" THEN LeavesOf(t.l) \o LeavesOf(t.r) ELSE <<t>>

RECURSIVE MidSplit(_)
MidSplit(t) ==
    t.kind = "and" =>
        /\ Len(LeavesOf(t.l)) = Len(LeavesOf(t)) \div 2
        /\ MidSplit(t.l)
        /\ MidSplit(t.r)

RECURSIVE AllAnd(_)
AllAnd(t) == IF t.kind = "and" THEN AllAnd(t.l) /\ AllAnd(t.r) ELSE t.kind = "leaf"

CeilLog2(n) == CHOOSE k \in 0..n : 2^k >= n /\ (k = 0 \/ 2^(k-1) < n)

Returned == createOk \cup createFailed

InRow == pc \in {"search", "search_wait", "lookup", "lookup_wait", "compile",
                 "create", "create_wait", "update", "update_wait"}

\* C1: a record whose create call returned a non-success response gets no
\* "mark transferred" update in that run.
C1_NoUpdateAfterFailedCreate ==
    \A id \in createFailed : id \notin updIssued

\* C2: the external calls of a run are strictly sequential: at most one
\* request is in flight, the "mark transferred" update of a record is issued
\* only after that record's create has returned, and a create is issued only
\* after the creates (and, where updates are made, the updates) of the
\* records before it have returned.
C2_Sequential ==
    /\ Cardinality(inflight) <= 1
    /\ \A r \in inflight :
        /\ r.kind = "update" => r.id \in Returned
        /\ r.kind = "create" =>
            \A j \in 1..(Len(createIssued) - 1) :
                /\ createIssued[j] \in Returned
                /\ variant = "new" => createIssued[j] \in updIssued

\* the update of the second record of a run is on the wire
C2_Witness ==
    /\ Len(createIssued) >= 2
    /\ \E r \in inflight : r.kind = "update" /\ r.id = createIssued[2]

C4_LoadedMatchFilter ==
    /\ (pc \in {"page", "qn_wait", "loaded"} /\ firstOk = "ok")
        => \A i \in SetOf(records) : EvalFilter(filter_object, src[i])
    /\ (pc = "loaded" /\ firstOk = "ok")
        => \A i \in Ids : EvalFilter(filter_object, src[i]) => i \in SetOf(records)

\* the leaves C5 expects for the criteria
ExpectedLeaves(v, a) ==
    <<not_transferred>>
    \o (IF StatusOf(a.status) # None THEN <<StatusLeaf(StatusOf(a.status))>> ELSE <<>>)
    \o (IF a.type # None THEN <<TypeLeaf(a.type)>> ELSE <<>>)
    \o (IF v = "old" /\ a.standalone THEN <<StandaloneLeaf>> ELSE <<>>)
    \o (IF v = "old" /\ a.year # None THEN <<YearLeaf(year_page_id[a.year])>> ELSE <<>>)

\* C5: for every combination of criteria (with a year label of the table)
\* create_filter returns a tree whose leaves are the base predicate and one
\* leaf per active criterion, in the order base, status, type, standalone,
\* year.
C5_FilterLeaves ==
    (pc = "fn_args_done" /\ args.year \in DOMAIN year_page_id \cup {None})
        => /\ filter_object.kind # "raise"
           /\ LeavesOf(filter_object) = ExpectedLeaves(variant, args)

\* what C6 says of every list of more than one leaf
BalancedAnd(t, fs) ==
    /\ AllAnd(t)
    /\ t.kind = "and"
    /\ MidSplit(t)
    /\ Depth(t) = CeilLog2(Len(fs))
    /\ LeavesOf(t) = fs

\* C6 as stated: for N > 1 leaves the result is the midpoint-split tree of
\* AND-nodes of depth ceil(log2 N), with the leaves in order, and the depth
\* is never N-1 for N > 2.
C6_BalancedNeverChain ==
    (pc = "fn_list_done" /\ Len(filters) > 1)
        => /\ BalancedAnd(filter_object, filters)
           /\ Len(filters) > 2 => Depth(filter_object) # Len(filters) - 1

\* C6, amended: for N > 1 leaves the result is the midpoint-split tree of
\* AND-nodes of depth ceil(log2 N), with the leaves in order, and the depth
\* is below N-1 for N > 3.
C6_Balanced ==
    (pc = "fn_list_done" /\ Len(filters) > 1)
        => /\ BalancedAnd(filter_object, filters)
           /\ Len(filters) > 3 => Depth(filter_object) < Len(filters) - 1

\* five leaves have become a tree of depth three
C6_Witness ==
    /\ pc = "fn_list_done"
    /\ Len(filters) = 5
    /\ Depth(filter_object) = 3
    /\ LeavesOf(filter_object) = filters

UnknownYear == variant = "old" /\ args.year # None /\ args.year \notin DOMAIN year_page_id

C8_UnknownCategoryBeforeMutation ==
    aborted = Raise("KeyError", "compile_properties")
        => /\ createIssued = <<>>
           /\ updIssued = {}

\* C9: for a record whose cover URL is not null get_cover_url returns that
\* URL, and neither lookup provider is consulted for it.
C9_CoverKept ==
    (variant = "old" /\ InRow /\ Row.Cover # None)
        => /\ pc \in {"compile", "create", "create_wait"}
           /\ cover_url = Row.Cover
           /\ lastSearch = None
           /\ lastLookup = None
           /\ \A r \in inflight : r.kind \notin {"search", "lookup"}

\* the create of a record that came with its own cover is about to be issued
C9_Witness ==
    /\ variant = "old"
    /\ pc = "create"
    /\ Row.Cover # None
    /\ cover_url = Row.Cover
    /\ "0 Cover" \in DOMAIN properties

\* C10: when the search yields no ISBN or the lookup yields no cover URL the
\* run is not ended by an exception: the cover stays null and the create is
\* issued without the cover property.
C10_MissingCoverProceeds ==
    (lastSearch \in {"noitems", "noisbn"} \/ lastLookup = "nocover")
        => /\ aborted = NoAbort
           /\ cover_url = None
           /\ pc \in {"create", "create_wait"} => "0 Cover" \notin DOMAIN properties

\* the methods of the enrichment chain an exception can leave from
EnrichmentMethods == {"get_isbn", "get_cover_url", "ol_get_cover_url"}

\* C11: when the title/author search or the ISBN cover lookup of a record
\* has failed with a network or HTTP error, no exception of the enrichment
\* ends the run: the record goes on to its create call without a cover.
C11_EnrichmentErrorContinues ==
    (lastSearch = "error" \/ lastLookup = "error")
        => /\ aborted.where \notin EnrichmentMethods
           /\ pc \in {"lookup", "lookup_wait", "compile", "create", "create_wait", "done"}
           /\ pc \in {"create", "create_wait"} => "0 Cover" \notin DOMAIN properties

\* C12: a run in which a create call returned a non-success response ends
\* without an exception and only after every record of the set it iterates
\* over has had exactly one create call, in the order of the set.
C12_FailedCreateContinues ==
    (pc = "done" /\ createFailed # {})
        => /\ aborted = NoAbort
           /\ createIssued = df

\* C13: a run in sample mode (--test) that has loaded at least one record
\* and has ended has cut the loaded records to one and issued exactly one
\* create call, for a loaded record.
C13_SampleOneCreate ==
    (pc = "done" /\ args.test = "True" /\ Len(records) >= 1)
        => /\ Len(df) = 1
           /\ Len(createIssued) = 1
           /\ createIssued[1] \in SetOf(records)

\* a property map has been returned by compile_properties
MapReturned == pc = "compiled" /\ aborted = NoAbort

\* C14: every property map compile_properties returns holds the key
\* "Needs Review" with the checkbox value true, whatever the record's fields.
C14_NeedsReview ==
    MapReturned
        => /\ "Needs Review" \in DOMAIN properties
           /\ properties["Needs Review"] = [checkbox |-> TRUE]

\* a Novella with a NaN page number has been mapped and is flagged
C14_Witness ==
    /\ MapReturned
    /\ row.Type = "Novella"
    /\ row.CurrentOn = "NaN"
    /\ Len(row.Authors) = 0
    /\ properties["Needs Review"] = [checkbox |-> TRUE]

NullNumber(v) == v = None \/ v = "NaN"

\* C15: in every property map compile_properties returns no key maps to
\* null, and the key of a numeric field (current page, total pages, number
\* in series) whose input is null or not-a-number is absent.
C15_NoNullValues ==
    MapReturned
        => /\ \A k \in DOMAIN properties : properties[k] # NoneProp
           /\ NullNumber(row.CurrentOn) => "BNG Current page" \notin DOMAIN properties
           /\ NullNumber(row.TotalPages) => "BNG Total pages" \notin DOMAIN properties
           /\ NullNumber(row.NumberInSeries) => "BNG Number in series" \notin DOMAIN properties

\* a map of a record without a cover and with a NaN current page: neither
\* key is there, the total pages key is
C15_Witness ==
    /\ MapReturned
    /\ variant = "new"
    /\ row.CurrentOn = "NaN"
    /\ row.Cover = None
    /\ "BNG Current page" \notin DOMAIN properties
    /\ "0 Cover" \notin DOMAIN properties
    /\ "BNG Total pages" \in DOMAIN properties

\* get_record has returned
RecordReturned == pc \in {"gr_done", "row_made", "retrieved", "compiled"}

\* C16: the record get_record returns carries the page id and has an entry
\* for each property of a supported type tag and no entry for any other
\* property.
C16_RecordKeys ==
    RecordReturned
        => /\ "page_id" \in DOMAIN record
           /\ record["page_id"] = result.id
           /\ \A n \in DOMAIN result.properties :
                n \in DOMAIN record <=> is_supported(result.properties[n])
           /\ DOMAIN record \subseteq {"page_id"} \cup DOMAIN result.properties

\* a result with a url property has been converted: the key is absent
C16_Witness ==
    /\ pc = "gr_done"
    /\ result.properties["Notes"].type = "url"
    /\ "Notes" \notin DOMAIN record
    /\ "Series" \in DOMAIN record
    /\ "Name" \in DOMAIN record

\* the related ids of the result's relation property
Related == result.properties["Series"].relation

C18_ZeroOrOneLeaf ==
    (pc = "fn_list_done" /\ Len(filters) <= 1)
        => /\ filter_object.kind = "leaf"
           /\ Len(filters) = 1 => filter_object = filters[1]

\* C18, amended: for exactly one leaf dict_list_to_object returns that leaf,
\* with no AND-node around it.
C18_OneLeaf ==
    (pc = "fn_list_done" /\ Len(filters) = 1)
        => /\ filter_object.kind = "leaf"
           /\ filter_object = filters[1]

\* the list of the base predicate alone has come back as the base predicate
C18_Witness ==
    /\ pc = "fn_list_done"
    /\ filters = <<not_transferred>>
    /\ filter_object = not_transferred

\* the raw date value of the result
RawDate == result.properties["Start and End"].date

DatesRetrieved == pc = "retrieved" /\ prop_value.prop = "1 Dates read"

\* C19: get_date followed by the mapping to "1 Dates read" keeps the range:
\* no date gives the empty list and no property, a start alone gives [start]
\* and a property with that start and a null end, a start and an end give
\* [start, end] and a property with both.
C19_DateRoundTrip ==
    DatesRetrieved
        => IF RawDate = NoneProp
           THEN /\ record["Start and End"] = <<>>
                /\ prop_value.value = NoneProp
           ELSE IF RawDate.end = None
           THEN /\ record["Start and End"] = <<RawDate.start>>
                /\ prop_value.value = [type |-> "date", start |-> RawDate.start, end |-> None]
           ELSE /\ record["Start and End"] = <<RawDate.start, RawDate.end>>
                /\ prop_value.value =
                     [type |-> "date", start |-> RawDate.start, end |-> RawDate.end]

\* a date with both ends has become a property with both ends
C19_Witness ==
    /\ DatesRetrieved
    /\ variant = "new"
    /\ RawDate # NoneProp
    /\ RawDate.end = "2022-02-01"
    /\ prop_value.value = [type |-> "date", start |-> "2022-01-01", end |-> "2022-02-01"]

\* the rename table as C20 states it: a name outside the table is kept
Renamed(t) ==
    IF t = "Poetry" THEN "Poem" ELSE IF t = "Short Story" THEN "Short story" ELSE t

\* C20: the "0 Type" select property carries the category renamed by the
\* static table, and a category outside the table unchanged.
C20_TypeRenamed ==
    (pc = "retrieved" /\ prop_value.prop = "0 Type")
        => prop_value.value = [type |-> "select", name |-> Renamed(row.Type)]

AuthorsRetrieved == pc = "retrieved" /\ prop_value.prop = "1 Author(s)"

\* C21: the "1 Author(s)" property holds one option object per author, in
\* order, each naming that author, as "1 Genre(s)" does for the genres; for
\* an empty author list there is no property.
C21_AuthorOptions ==
    AuthorsRetrieved
        => IF Len(row.Authors) = 0
           THEN prop_value.value = NoneProp
           ELSE prop_value.value =
                  [type |-> "multi_select", multi_select |-> OptionsOf(row.Authors)]

\* a run in which every step that can be taken is taken in the end: the
\* script keeps running and every request gets a response
SpecLive == Spec /\ WF_vars(Next)

\* C22: load_db terminates: once it has started it returns, also when
\* queries for pages after the first return non-success responses.
C22_LoadTerminates == (pc = "load") ~> (pc = "loaded")

\* C23: while every create and every update has succeeded, a record whose
\* "Transferred to new db?" flag is set is not among the records a load
\* returns and no create is issued for it: a record's flag is set only
\* after its create, so no record is created a second time by a later run.
C23_TransferredNotCreatedAgain ==
    allSucceeded
        => /\ pc = "loaded" => \A i \in SetOf(records) : ~src[i].transferred
           /\ \A req \in inflight : req.kind = "create" => ~src[req.id].transferred

====
